---- MODULE Spec2Model ----
(***************************************************************************)
(* Model of Salamander: the Gecko code decoder (src/src/gecko.rs) and the  *)
(* single-instruction assembler front end (src/src/main.rs).               *)
(*                                                                         *)
(* A u32 is the pair <<hi, lo>> of its 16-bit halves (value hi*65536+lo),  *)
(* so that every 32-bit value is representable and arithmetic keeps its    *)
(* width.  A string is the sequence of its one-character strings.          *)
(***************************************************************************)
EXTENDS Integers, Sequences, FiniteSets, TLC

(***************************************************************************)
(* Bounds of the model                                                     *)
(***************************************************************************)
\* longest word sequence over CoreWords given to the decoder
MaxLen == 4
\* longest tail that follows a sampled two-word record head
MaxTail == 2
\* largest byte count of a sampled 0x06 record
MaxBytes == 5
\* longest body that follows the header of a sampled assembly record
MaxBody == 4

(***************************************************************************)
(* u32 arithmetic on <<hi, lo>>                                            *)
(***************************************************************************)
RECURSIVE BitAnd(_, _)
BitAnd(a, b) ==
    IF a = 0 \/ b = 0 THEN 0
    ELSE (a % 2) * (b % 2) + 2 * BitAnd(a \div 2, b \div 2)

RECURSIVE BitOr(_, _)
BitOr(a, b) ==
    IF a = 0 THEN b
    ELSE IF b = 0 THEN a
    ELSE (IF a % 2 = 1 \/ b % 2 = 1 THEN 1 ELSE 0) + 2 * BitOr(a \div 2, b \div 2)

RECURSIVE Pow2(_)
Pow2(n) == IF n = 0 THEN 1 ELSE 2 * Pow2(n - 1)

And32(w, m) == <<BitAnd(w[1], m[1]), BitAnd(w[2], m[2])>>

Or32(w, m) == <<BitOr(w[1], m[1]), BitOr(w[2], m[2])>>

\* w >> n, 0 <= n <= 31
Shr32(w, n) ==
    IF n >= 16 THEN <<0, w[1] \div Pow2(n - 16)>>
    ELSE <<w[1] \div Pow2(n),
           (w[1] % Pow2(n)) * Pow2(16 - n) + w[2] \div Pow2(n)>>

\* w + n for a small natural n, modulo 2^32
Add32(w, n) ==
    LET s == w[2] + n
    IN  <<(w[1] + s \div 65536) % 65536, s % 65536>>

\* `as u8`, `as u16`
AsU8(w) == w[2] % 256

AsU16(w) == w[2]

\* u32::to_be_bytes
to_be_bytes(w) == <<w[1] \div 256, w[1] % 256, w[2] \div 256, w[2] % 256>>

\* i < n for a natural i < 65536 and a u32 n
\* a faulty variant of LtU32 that compares with <=
LtU32_OrEqual(i, n) == n[1] > 0 \/ i <= n[2]

LtU32(i, n) == n[1] > 0 \/ i < n[2]

(***************************************************************************)
(* Rendered text: a sequence of items, one per formatted field.            *)
(* k names the field, w is a formatted u32, b formatted bytes, n a number. *)
(***************************************************************************)
Zero32 == <<0, 0>>

Item(k, w, b, n) == [k |-> k, w |-> w, b |-> b, n |-> n]

Lit(k) == Item(k, Zero32, <<>>, 0)

Hex32(k, w) == Item(k, w, <<>>, 0)

Num(k, n) == Item(k, Zero32, <<>>, n)

Bytes(k, b) == Item(k, Zero32, b, 0)

\* the record separator "\n\n// ---\n\n"
Separator == Lit("separator")

\* outcome of one record decoder: st is "ok", "panic" (index out of bounds
\* in get_and_seek) or "ParseError"; pos is the cursor position it leaves
DecOk(pos, text) == [st |-> "ok", pos |-> pos, text |-> text]

DecPanic(pos) == [st |-> "panic", pos |-> pos, text |-> <<>>]

DecParseError(pos) == [st |-> "ParseError", pos |-> pos, text |-> <<>>]

(***************************************************************************)
(* The word cursor                                                         *)
(***************************************************************************)
\* get_and_seek: the word at the 0-based position pos and the position
\* advanced by one; indexing past the end panics
get_and_seek(code, pos) ==
    IF pos < Len(code)
    THEN [ok |-> TRUE, value |-> code[pos + 1], pos |-> pos + 1]
    ELSE [ok |-> FALSE, value |-> Zero32, pos |-> pos]

\* 0x00FFFFFF
AddressMask == <<\h00FF, \hFFFF>>

\* 0x80000000
AddressBase == <<\h8000, 0>>

\* get_code_address: the next word's low 24 bits under 0x80000000, plus
\* 0x01000000 when larger_address
get_code_address(code, pos, larger_address) ==
    LET r == get_and_seek(code, pos)
        address == And32(r.value, AddressMask)
        final_address == Or32(AddressBase, address)
    IN  [ok |-> r.ok, pos |-> r.pos,
         value |-> IF larger_address
                   THEN <<(final_address[1] + \h0100) % 65536, final_address[2]>>
                   ELSE final_address]

(***************************************************************************)
(* crate::ppc (not part of the sources at hand): the disassembly of one    *)
(* instruction word is one line of text naming that word.                  *)
(***************************************************************************)
code_to_instruction(w) == Hex32("instr", w)

(***************************************************************************)
(* Record decoders.  Each takes the word sequence and the cursor position  *)
(* and yields DecOk / DecPanic / DecParseError.                            *)
(***************************************************************************)
from_02(code, pos, larger_address) ==
    LET a == get_code_address(code, pos, larger_address)
        t == get_and_seek(code, a.pos)
        temp == t.value
        count == Shr32(And32(temp, <<\hFFFF, 0>>), 16)
        value == AsU16(And32(temp, <<0, \hFFFF>>))
    IN  IF ~a.ok THEN DecPanic(a.pos)
        ELSE IF ~t.ok THEN DecPanic(t.pos)
        ELSE DecOk(t.pos,
                   <<Lit("Constant 16-bit RAM Fill"),
                     Hex32("Range from", a.value),
                     Hex32("Range to", Add32(a.value, count[2] + 1)),
                     Num("Value16", value)>>)

from_04(code, pos, larger_address) ==
    LET a == get_code_address(code, pos, larger_address)
        v == get_and_seek(code, a.pos)
    IN  IF ~a.ok THEN DecPanic(a.pos)
        ELSE IF ~v.ok THEN DecPanic(v.pos)
        ELSE DecOk(v.pos,
                   <<Lit("Constant 32-bit RAM Write"),
                     Hex32("Target address", a.value),
                     Hex32("Value", v.value)>>)

\* (num_bytes as usize).next_multiple_of(4) / 4, exact for every u32
NumValues(num_bytes) == num_bytes[1] * 16384 + (num_bytes[2] + 3) \div 4

\* the loop of from_06: n more words are read and unpacked big-endian
RECURSIVE ReadRawBytes(_, _, _, _)
ReadRawBytes(code, pos, n, raw_bytes) ==
    IF n = 0 THEN [ok |-> TRUE, pos |-> pos, bytes |-> raw_bytes]
    ELSE LET r == get_and_seek(code, pos)
         IN  IF ~r.ok THEN [ok |-> FALSE, pos |-> r.pos, bytes |-> raw_bytes]
             ELSE ReadRawBytes(code, r.pos, n - 1,
                               raw_bytes \o to_be_bytes(r.value))

\* raw_bytes.resize(n, 0)
Resize(bytes, n) ==
    [i \in 1..n |-> IF i <= Len(bytes) THEN bytes[i] ELSE 0]

\* raw_bytes.iter().position(|byte| *byte == 0): 0-based, -1 for None
RECURSIVE PositionOfZero(_, _)
PositionOfZero(bytes, i) ==
    IF i > Len(bytes) THEN -1
    ELSE IF bytes[i] = 0 THEN i - 1
    ELSE PositionOfZero(bytes, i + 1)

IsCont(b) == b >= \h80 /\ b <= \hBF

\* String::from_utf8(..).is_ok(): the well-formed UTF-8 byte sequences
RECURSIVE ValidUtf8(_, _)
ValidUtf8(bytes, i) ==
    LET n == Len(bytes)
        b0 == bytes[i]
        b1 == bytes[i + 1]
        b2 == bytes[i + 2]
        b3 == bytes[i + 3]
    IN  IF i > n THEN TRUE
        ELSE IF b0 < \h80 THEN ValidUtf8(bytes, i + 1)
        ELSE IF b0 >= \hC2 /\ b0 <= \hDF
        THEN i + 1 <= n /\ IsCont(b1) /\ ValidUtf8(bytes, i + 2)
        ELSE IF b0 >= \hE0 /\ b0 <= \hEF
        THEN /\ i + 2 <= n
             /\ IF b0 = \hE0 THEN b1 >= \hA0 /\ b1 <= \hBF
                ELSE IF b0 = \hED THEN b1 >= \h80 /\ b1 <= \h9F
                ELSE IsCont(b1)
             /\ IsCont(b2)
             /\ ValidUtf8(bytes, i + 3)
        ELSE IF b0 >= \hF0 /\ b0 <= \hF4
        THEN /\ i + 3 <= n
             /\ IF b0 = \hF0 THEN b1 >= \h90 /\ b1 <= \hBF
                ELSE IF b0 = \hF4 THEN b1 >= \h80 /\ b1 <= \h8F
                ELSE IsCont(b1)
             /\ IsCont(b2)
             /\ IsCont(b3)
             /\ ValidUtf8(bytes, i + 4)
        ELSE FALSE

\* a faulty variant of IsStringCandidate that looks at the last byte only
IsStringCandidate_LastOnly(raw_bytes) ==
    Len(raw_bytes) > 0 /\ raw_bytes[Len(raw_bytes)] = 0

\* is_string of from_06: the first zero byte is the last byte
IsStringCandidate(raw_bytes) ==
    LET index == PositionOfZero(raw_bytes, 1)
    IN  index # -1 /\ ~(index < Len(raw_bytes) - 1)

from_06(code, pos, larger_address) ==
    LET a == get_code_address(code, pos, larger_address)
        nb == get_and_seek(code, a.pos)
        num_bytes == nb.value
        num_values == NumValues(num_bytes)
        rd == ReadRawBytes(code, nb.pos, num_values, <<>>)
        raw_bytes == Resize(rd.bytes, num_bytes[2])
        is_string == IsStringCandidate(raw_bytes)
        printed_string == is_string /\ ValidUtf8(raw_bytes, 1)
        head == <<Lit("String RAM Write"), Hex32("Target address", a.value)>>
    IN  IF ~a.ok THEN DecPanic(a.pos)
        ELSE IF ~nb.ok THEN DecPanic(nb.pos)
        ELSE IF ~rd.ok THEN DecPanic(rd.pos)
        ELSE DecOk(rd.pos,
                   head
                   \o (IF printed_string
                       THEN <<Bytes("String contents", raw_bytes)>>
                       ELSE <<>>)
                   \o (IF ~is_string \/ ~printed_string
                       THEN <<Bytes("Byte contents", raw_bytes)>>
                       ELSE <<>>))

\* a faulty variant of from_80 that takes the register from the tag word
\* and does not read the value word
from_80_OneWord(code, pos) ==
    LET r == get_and_seek(code, pos)
    IN  IF ~r.ok THEN DecPanic(r.pos)
        ELSE DecOk(r.pos, <<Num("gr", And32(r.value, <<0, \h00FF>>)[2]),
                            Hex32("gr value", Zero32)>>)

from_80(code, pos) ==
    LET r == get_and_seek(code, pos)
        register == And32(r.value, <<0, \h00FF>>)
        v == get_and_seek(code, r.pos)
    IN  IF ~r.ok THEN DecPanic(r.pos)
        ELSE IF ~v.ok THEN DecPanic(v.pos)
        ELSE DecOk(v.pos, <<Num("gr", register[2]), Hex32("gr value", v.value)>>)

from_82(code, pos) ==
    LET r == get_and_seek(code, pos)
        register == And32(r.value, <<0, \h00FF>>)
        v == get_and_seek(code, r.pos)
    IN  IF ~r.ok THEN DecPanic(r.pos)
        ELSE IF ~v.ok THEN DecPanic(v.pos)
        ELSE DecOk(v.pos,
                   <<Hex32("Load value", v.value), Num("into register", register[2])>>)

\* a variant of ValueSizeValue that shifts the selector nibble down to bit 0
ValueSizeValue_Shr14(code) == AsU8(Shr32(And32(code, <<\h00F0, 0>>), \h14))

\* value_size_value of from_84_94: ((code & 0x00F00000) >> 0x18) as u8
ValueSizeValue(code) == AsU8(Shr32(And32(code, <<\h00F0, 0>>), \h18))

\* sub_subtype of from_84_94: ((code & 0x000F0000) >> 0x14) as u8
SubSubtype(code) == AsU8(Shr32(And32(code, <<\h000F, 0>>), \h14))

\* a decoder that hit unreachable!()
DecUnreachable(pos) == [st |-> "unreachable", pos |-> pos, text |-> <<>>]

from_84_94(code, pos) ==
    LET c == get_and_seek(code, pos)
        subtype == AsU8(Shr32(And32(c.value, <<\hFF00, 0>>), \h18))
        value_size_value == ValueSizeValue(c.value)
        value_size == CASE value_size_value = 0 -> 1
                        [] value_size_value = 1 -> 2
                        [] value_size_value = 2 -> 4
                        [] OTHER -> 0
        num_additional_written_values ==
            AsU16(Shr32(And32(c.value, <<0, \hFFF0>>), 4))
        consecutive_written == num_additional_written_values + 1
        register == AsU8(And32(c.value, <<0, \h000F>>))
        a == get_and_seek(code, c.pos)
        sub_subtype == SubSubtype(c.value)
        text(base) == <<Num("Store register", register),
                        Hex32("starting at address", a.value),
                        Lit(base),
                        Num("consecutive written", consecutive_written),
                        Num("value size", value_size)>>
    IN  IF ~c.ok THEN DecPanic(c.pos)
        ELSE IF value_size_value \notin {0, 1, 2} THEN DecParseError(c.pos)
        ELSE IF ~a.ok THEN DecPanic(a.pos)
        ELSE IF subtype = \h84
        THEN IF sub_subtype = 0 THEN DecOk(a.pos, text("absolute"))
             ELSE IF sub_subtype = 1 THEN DecOk(a.pos, text("+ ba"))
             ELSE DecUnreachable(a.pos)
        ELSE IF subtype = \h94 THEN DecOk(a.pos, text("+ po"))
        ELSE DecUnreachable(a.pos)

\* 0x4E800020
BLR == <<\h4E80, \h0020>>

\* 0x60000000
NOP == <<\h6000, 0>>

\* the for loop of from_c0: iteration i of 0..num_lines
RECURSIVE C0Lines(_, _, _, _, _)
C0Lines(code, pos, i, num_lines, text) ==
    IF ~LtU32(i, num_lines) THEN DecOk(pos, text)
    ELSE LET l == get_and_seek(code, pos)
             r == get_and_seek(code, l.pos)
             left_code == l.value
             right_code == r.value
         IN  IF ~l.ok THEN DecPanic(l.pos)
             ELSE IF ~r.ok THEN DecPanic(r.pos)
             ELSE IF left_code = BLR
             THEN DecOk(r.pos, Append(text, Lit("blr")))
             ELSE IF right_code = BLR
             THEN DecOk(r.pos, text \o <<code_to_instruction(left_code), Lit("blr")>>)
             ELSE C0Lines(code, r.pos, i + 1, num_lines,
                          text \o <<code_to_instruction(left_code),
                                    code_to_instruction(right_code)>>)

from_c0(code, pos) ==
    LET a == get_and_seek(code, pos)
        n == get_and_seek(code, a.pos)
    IN  IF ~a.ok THEN DecPanic(a.pos)
        ELSE IF ~n.ok THEN DecPanic(n.pos)
        ELSE C0Lines(code, n.pos, 0, n.value,
                     <<Lit("Execute Assembly"), Hex32("Target address", a.value)>>)

\* a faulty variant of C2Lines that ends the record at the pair
\* (0x60000000, 0) only
RECURSIVE C2Lines_NopZeroOnly(_, _, _)
C2Lines_NopZeroOnly(code, pos, text) ==
    IF ~(pos < Len(code)) THEN DecOk(pos, text)
    ELSE LET l == get_and_seek(code, pos)
             r == get_and_seek(code, l.pos)
         IN  IF ~l.ok THEN DecPanic(l.pos)
             ELSE IF ~r.ok THEN DecPanic(r.pos)
             ELSE IF l.value = NOP /\ r.value = Zero32
             THEN DecOk(r.pos, text)
             ELSE C2Lines_NopZeroOnly(code, r.pos,
                          text \o <<code_to_instruction(l.value),
                                    code_to_instruction(r.value)>>)

\* the while loop of from_c2
RECURSIVE C2Lines(_, _, _)
C2Lines(code, pos, text) ==
    IF ~(pos < Len(code)) THEN DecOk(pos, text)
    ELSE LET l == get_and_seek(code, pos)
             r == get_and_seek(code, l.pos)
             left_code == l.value
             right_code == r.value
         IN  IF ~l.ok THEN DecPanic(l.pos)
             ELSE IF ~r.ok THEN DecPanic(r.pos)
             ELSE IF left_code = NOP /\ right_code = Zero32
             THEN DecOk(r.pos, text)
             ELSE IF right_code = NOP
             THEN DecOk(r.pos, Append(text, code_to_instruction(left_code)))
             ELSE C2Lines(code, r.pos,
                          text \o <<code_to_instruction(left_code),
                                    code_to_instruction(right_code)>>)

from_c2(code, pos, larger_address) ==
    LET a == get_code_address(code, pos, larger_address)
        n == get_and_seek(code, a.pos)
    IN  IF ~a.ok THEN DecPanic(a.pos)
        ELSE IF ~n.ok THEN DecPanic(n.pos)
        ELSE C2Lines(code, n.pos,
                     <<Lit("Insert Assembly"), Hex32("Target address", a.value)>>)

from_c6(code, pos, larger_address) ==
    LET a == get_code_address(code, pos, larger_address)
        t == get_and_seek(code, a.pos)
    IN  IF ~a.ok THEN DecPanic(a.pos)
        ELSE IF ~t.ok THEN DecPanic(t.pos)
        ELSE DecOk(t.pos,
                   <<Lit("Create a Branch"),
                     Hex32("Target address", a.value),
                     Hex32("Branch to", t.value)>>)

(***************************************************************************)
(* State                                                                   *)
(***************************************************************************)
VARIABLES
    \* convert_from_gecko_code_values
    gecko_code,               \* the argument
    pc,                       \* "idle", "start", "loop" or "done"
    cursor,                   \* cursor.position()
    current_cursor_position,  \* the dispatcher's own copy of the position
    result,                   \* the text accumulated so far
    ret,                      \* what the call returned (kind "none" until then)
    tag_positions,            \* history: the positions the tag byte was read at
    records,                  \* history: the records decoded so far
    \* instr_to_code
    line,                     \* the argument, a sequence of characters
    apc,                      \* "idle", "start", "args" or "done"
    mnemonic,                 \* the first token
    tokens,                   \* the operand tokens not yet parsed
    passed_args,              \* the five operand slots
    used_args,                \* the number of slots filled
    slot_writes,              \* history: the slot indices written
    assembled,                \* history: the operand arrays given to asm::assemble
    aret                      \* what the call returned (kind "none" until then)

gvars == <<gecko_code, pc, cursor, current_cursor_position, result, ret,
           tag_positions, records>>

avars == <<line, apc, mnemonic, tokens, passed_args,
           used_args, slot_writes, assembled, aret>>

vars == <<gvars, avars>>

(***************************************************************************)
(* convert_from_gecko_code_values                                          *)
(***************************************************************************)
Ret(kind, text, line_number, value) ==
    [kind |-> kind, text |-> text, line_number |-> line_number, value |-> value]

NoRet == Ret("none", <<>>, 0, Zero32)

\* a faulty variant of LengthCheck that rejects the empty sequence only
LengthCheck_EmptyOnly(code) == IF Len(code) = 0 THEN "Empty" ELSE "ok"

\* the length validation that precedes the loop
LengthCheck(code) ==
    IF Len(code) = 0 THEN "Empty"
    ELSE IF Len(code) % 2 # 0 THEN "Malformed"
    ELSE "ok"

\* the code type: ((current_value & 0xFF000000) >> 0x18) as u8
TagByte(current_value) == AsU8(Shr32(And32(current_value, <<\hFF00, 0>>), \h18))

\* the tag bytes the match has an arm for
SupportedTags ==
    {\h02, \h03, \h04, \h05, \h06, \h80, \h82, \h84, \h94, \hC0, \hC2, \hC3, \hC6, \hC7}

\* a faulty variant of LineNumber that counts pairs from zero
LineNumber_FromZero(position) == position \div 2

\* line_number of InvalidType
LineNumber(position) == (position \div 2) + 1

Validate ==
    /\ pc = "start"
    /\ LET check == LengthCheck(gecko_code)
       IN  IF check = "ok"
           THEN /\ pc' = "loop"
                /\ ret' = ret
           ELSE /\ pc' = "done"
                /\ ret' = Ret(check, <<>>, 0, Zero32)
    /\ cursor' = 0
    /\ current_cursor_position' = 0
    /\ result' = <<>>
    /\ UNCHANGED <<gecko_code, tag_positions, records, avars>>

current_value == gecko_code[current_cursor_position + 1]

byte == TagByte(current_value)

InLoop == pc = "loop" /\ current_cursor_position < Len(gecko_code)

\* one match arm followed by lines 139-140: d is what the decoder yielded
Arm(d) ==
    /\ tag_positions' = Append(tag_positions, current_cursor_position)
    /\ cursor' = d.pos
    /\ IF d.st = "ok"
       THEN /\ result' = result \o d.text \o <<Separator>>
            /\ current_cursor_position' = d.pos
            /\ records' = Append(records,
                                 [at |-> current_cursor_position,
                                  first |-> current_value,
                                  text |-> d.text,
                                  end |-> d.pos])
            /\ pc' = "loop"
            /\ ret' = ret
       ELSE /\ pc' = "done"
            /\ ret' = Ret(CASE d.st = "ParseError" -> "ParseError"
                            [] d.st = "panic" -> "PanicIndex"
                            [] d.st = "unreachable" -> "PanicUnreachable",
                          <<>>, 0, Zero32)
            /\ UNCHANGED <<result, current_cursor_position, records>>
    /\ UNCHANGED <<gecko_code, avars>>

Do02 ==
    /\ InLoop
    /\ byte \in {\h02, \h03}
    /\ Arm(from_02(gecko_code, cursor, byte % 2 # 0))

Do04 ==
    /\ InLoop
    /\ byte \in {\h04, \h05}
    /\ Arm(from_04(gecko_code, cursor, byte % 2 # 0))

Do06 ==
    /\ InLoop
    /\ byte = \h06
    /\ Arm(from_06(gecko_code, cursor, byte % 2 # 0))

Do80 ==
    /\ InLoop
    /\ byte = \h80
    /\ Arm(from_80(gecko_code, cursor))

Do82 ==
    /\ InLoop
    /\ byte = \h82
    /\ Arm(from_82(gecko_code, cursor))

Do84_94 ==
    /\ InLoop
    /\ byte \in {\h84, \h94}
    /\ Arm(from_84_94(gecko_code, cursor))

DoC0 ==
    /\ InLoop
    /\ byte = \hC0
    /\ Arm(from_c0(gecko_code, cursor))

DoC2 ==
    /\ InLoop
    /\ byte \in {\hC2, \hC3}
    /\ Arm(from_c2(gecko_code, cursor, byte % 2 # 0))

DoC6 ==
    /\ InLoop
    /\ byte \in {\hC6, \hC7}
    /\ Arm(from_c6(gecko_code, cursor, byte % 2 # 0))

DoInvalid ==
    /\ InLoop
    /\ byte \notin SupportedTags
    /\ tag_positions' = Append(tag_positions, current_cursor_position)
    /\ pc' = "done"
    /\ ret' = Ret("InvalidType", <<>>, LineNumber(current_cursor_position),
                  current_value)
    /\ UNCHANGED <<gecko_code, cursor, current_cursor_position, result, records,
                   avars>>

Finish ==
    /\ pc = "loop"
    /\ ~(current_cursor_position < Len(gecko_code))
    /\ pc' = "done"
    /\ ret' = Ret("Ok", result, 0, Zero32)
    /\ UNCHANGED <<gecko_code, cursor, current_cursor_position, result,
                   tag_positions, records, avars>>

(***************************************************************************)
(* Inputs of the decoder                                                   *)
(***************************************************************************)
SeqsUpTo(S, n) == UNION {[1..k -> S] : k \in 0..n}

\* words that occur anywhere in a sequence
CoreWords ==
    { <<0, 0>>, <<0, 1>>, <<\h0400, \h1040>>, <<\h0600, \h1040>>,
      <<\h6000, 0>>, <<\h4E80, \h0020>>, <<\hC000, \h1040>>,
      <<\hC200, \h1040>>, <<\h9900, 0>> }

\* first words of sampled records: every tag family, both parities, and
\* the size selectors of the store-register family
HeadWords ==
    { <<\h0200, \h1040>>, <<\h03FF, \hFFFF>>, <<\h0500, \h1040>>,
      <<\h0700, \h1040>>, <<\h8000, \h0005>>, <<\h8200, \h0107>>,
      <<\h8400, \h0003>>, <<\h8410, \h0013>>, <<\h8420, \hFFF3>>,
      <<\h8431, \h0003>>, <<\h9410, \h0003>>, <<\h94F0, \h0003>>,
      <<\hC0FF, \hFFFF>>, <<\hC300, \h1040>>, <<\hC600, \h0100>>,
      <<\hC7FF, \hFFFF>> }

SecondWords == { <<0, 1>>, <<\h8000, \h1234>>, <<\hFFFF, \h1234>> }

\* payload words of sampled 0x06 records
ByteWords ==
    { <<\h4142, \h4300>>, <<\h4100, \h4200>>, <<\h4142, \h4344>>,
      <<\hC3A9, \h4100>>, <<\hC300, 0>>, <<0, 0>>, <<\hFF41, 0>> }

\* first words of sampled embedded-assembly records
AssemblyHeads == { <<\hC000, \h1040>>, <<\hC200, \h1040>>, <<\hC300, \h1040>> }

\* words that follow the two header words of a sampled assembly record
BodyWords ==
    { <<\h6000, 0>>, <<0, 0>>, <<\h4E80, \h0020>>, <<\h3860, \h0001>>,
      <<\h0400, \h1040>> }

Inputs ==
    SeqsUpTo(CoreWords, MaxLen)
    \cup { <<h, s>> \o t : h \in HeadWords, s \in SecondWords,
                           t \in SeqsUpTo(CoreWords, MaxTail) }
    \cup { <<<<\h0600, \h1040>>, <<0, n>>>> \o b :
               n \in 0..MaxBytes, b \in SeqsUpTo(ByteWords, (MaxBytes + 3) \div 4) }
    \cup { <<h, <<0, n>>>> \o b :
               h \in AssemblyHeads, n \in 0..2, b \in SeqsUpTo(BodyWords, MaxBody) }

NoArgs == [i \in 0..4 |-> -1]

NoARet == [kind |-> "none", value |-> Zero32]

AsmIdle ==
    /\ line = <<>>
    /\ apc = "idle"
    /\ mnemonic = <<>>
    /\ tokens = <<>>
    /\ passed_args = NoArgs
    /\ used_args = 0
    /\ slot_writes = <<>>
    /\ assembled = <<>>
    /\ aret = NoARet

Init ==
    /\ gecko_code \in Inputs
    /\ pc = "start"
    /\ cursor = 0
    /\ current_cursor_position = 0
    /\ result = <<>>
    /\ ret = NoRet
    /\ tag_positions = <<>>
    /\ records = <<>>
    /\ AsmIdle

Next ==
    \/ Validate
    \/ Do02
    \/ Do04
    \/ Do06
    \/ Do80
    \/ Do82
    \/ Do84_94
    \/ DoC0
    \/ DoC2
    \/ DoC6
    \/ DoInvalid
    \/ Finish

Spec == Init /\ [][Next]_vars

(***************************************************************************)
(* Properties of the decoder                                               *)
(***************************************************************************)
Done == pc = "done"

TagAt(p) == gecko_code[p + 1][1] \div 256

\* every word the dispatcher read as a tag has a supported tag byte
AllTagsSupported ==
    \A i \in 1..Len(tag_positions) : TagAt(tag_positions[i]) \in SupportedTags

C1_Pre ==
    /\ Done
    /\ Len(gecko_code) > 0
    /\ Len(gecko_code) % 2 = 0
    /\ AllTagsSupported

C2_NeverOutOfBounds == ret.kind # "PanicIndex"

\* C3: an unsupported tag byte at the dispatcher's position p ends the call
\* with InvalidType carrying line_number = floor(p/2) + 1 and the word at p,
\* and no text; [0x99000000, 0x00000000] gives ordinal 1, value 0x99000000.
C3_InvalidType ==
    /\ \A i \in 1..Len(tag_positions) :
           LET p == tag_positions[i]
           IN  TagAt(p) \notin SupportedTags =>
                   /\ i = Len(tag_positions)
                   /\ Done
                   /\ ret.kind = "InvalidType"
                   /\ ret.line_number = (p \div 2) + 1
                   /\ ret.value = gecko_code[p + 1]
                   /\ ret.text = <<>>
    /\ (Done /\ gecko_code = << <<\h9900, 0>>, <<0, 0>> >>) =>
           (ret.kind = "InvalidType" /\ ret.line_number = 1
            /\ ret.value = <<\h9900, 0>>)

C3_Witness ==
    /\ ret.kind = "InvalidType"
    /\ ret.line_number = 2
    /\ result # <<>>
    /\ ret.text = <<>>

\* C4: the empty sequence fails with Empty and every odd-length sequence
\* with Malformed, before any word is read or any decoder is invoked.
C4_LengthChecks ==
    pc \in {"loop", "done"} =>
        /\ Len(gecko_code) = 0 =>
               (ret.kind = "Empty" /\ tag_positions = <<>> /\ records = <<>>
                /\ cursor = 0)
        /\ Len(gecko_code) % 2 # 0 =>
               (ret.kind = "Malformed" /\ tag_positions = <<>> /\ records = <<>>
                /\ cursor = 0)

C4_Witness ==
    /\ Done
    /\ Len(gecko_code) = 3
    /\ TagAt(0) \notin SupportedTags
    /\ ret.kind = "Malformed"

\* the address the claim expects for a record with first word w
ExpectedAddress(w) ==
    <<\h8000 + (w[1] % 256) + (IF (w[1] \div 256) % 2 = 1 THEN \h0100 ELSE 0),
      w[2]>>

AddressTags == {\h02, \h03, \h04, \h05, \h06, \hC0, \hC2, \hC3, \hC6, \hC7}

\* C5: for every record family with an address field the rendered address
\* is (0x80000000 | (first_word & 0x00FFFFFF)), plus 0x01000000 exactly
\* when the tag byte is odd, and so lies in 0x80000000..=0x81FFFFFF.
C5_AddressResolved ==
    \A i \in 1..Len(records) :
        LET r == records[i]
        IN  TagAt(r.at) \in AddressTags =>
                /\ r.text[2].w = ExpectedAddress(r.first)
                /\ r.text[2].w[1] >= \h8000
                /\ r.text[2].w[1] <= \h81FF

\* the payload of the 0x06 record at position at: n bytes, big-endian
PayloadBytes(at, n) ==
    [i \in 1..n |->
        to_be_bytes(gecko_code[at + 3 + ((i - 1) \div 4)])[((i - 1) % 4) + 1]]

ByteCountAt(at) == gecko_code[at + 2][2]

\* C6: a 0x06 record renders a quoted string iff its payload holds exactly
\* one zero byte, that byte is the last, and the bytes are valid text;
\* otherwise it renders the hex byte list; exactly one of the two.
C6_StringOrBytes ==
    \A i \in 1..Len(records) :
        LET r == records[i]
            payload == PayloadBytes(r.at, ByteCountAt(r.at))
            zeros == {j \in 1..Len(payload) : payload[j] = 0}
            stringlike == /\ Cardinality(zeros) = 1
                          /\ payload[Len(payload)] = 0
                          /\ ValidUtf8(payload, 1)
        IN  TagAt(r.at) = \h06 =>
                /\ Len(r.text) = 3
                /\ r.text[3].b = payload
                /\ r.text[3].k = IF stringlike THEN "String contents"
                                 ELSE "Byte contents"

C6_Witness ==
    \E i \in 1..Len(records) :
        /\ TagAt(records[i].at) = \h06
        /\ records[i].text[3].k = "String contents"
        /\ Len(records[i].text[3].b) = 4
        /\ records[i].text[3].b[1] = \hC3

\* the size selector of a store-register word: bits 20..23
SizeSelector(w) == (w[1] \div 16) % 16

\* C7: a 0x84/0x94 record renders 1-, 2- or 4-byte values for size
\* selector 0, 1 or 2, and any other selector fails with ParseError.
C7_SizeSelector ==
    /\ \A i \in 1..Len(records) :
           LET r == records[i]
               sel == SizeSelector(r.first)
           IN  TagAt(r.at) \in {\h84, \h94} =>
                   /\ sel \in {0, 1, 2}
                   /\ r.text[5].n = (CASE sel = 0 -> 1 [] sel = 1 -> 2 [] sel = 2 -> 4)
    /\ (Done /\ tag_positions # <<>>) =>
           LET p == tag_positions[Len(tag_positions)]
           IN  (TagAt(p) \in {\h84, \h94}
                /\ SizeSelector(gecko_code[p + 1]) \notin {0, 1, 2})
                   => ret.kind = "ParseError"

\* C10: every record decoder consumes a multiple of two words, so the tag
\* byte is always read at an even position.
C10_EvenBoundaries ==
    /\ \A i \in 1..Len(tag_positions) : tag_positions[i] % 2 = 0
    /\ \A i \in 1..Len(records) : (records[i].end - records[i].at) % 2 = 0

\* the word of the sequence at cursor position p
Word(p) == gecko_code[p + 1]

\* the least element of a non-empty set of numbers
Least(S) == CHOOSE x \in S : \A y \in S : x <= y

\* the instruction items of a decoded assembly record: its text after the
\* heading and the target address
Instructions(r) == SubSeq(r.text, 3, Len(r.text))

\* the words at positions from..(to - 1), each rendered as an instruction
Rendered(from, to) == [i \in 1..(to - from) |-> code_to_instruction(Word(from + i - 1))]

\* the complete instruction pairs that follow the header of record r
PairsAfter(r) == 0..((Len(gecko_code) - r.at - 2) \div 2 - 1)

PairL(r, j) == Word(r.at + 2 + 2 * j)

PairR(r, j) == Word(r.at + 3 + 2 * j)

\* the pairs at which a 0xC2/0xC3 record is said to stop
C2Stops(L, R) ==
    \/ L = <<\h6000, 0>> /\ R = Zero32
    \/ R = <<\h6000, 0>> /\ L = Zero32
    \/ R = <<\h6000, 0>>

C2StopPairs(r) == { j \in PairsAfter(r) : C2Stops(PairL(r, j), PairR(r, j)) }

IsC2(p) == TagAt(p) \in {\hC2, \hC3}

DocumentedEnd(L, R) == R = Zero32 /\ L # <<\h6000, 0>> /\ L # Zero32

\* the pairs of record r that lie within the words it consumed
ConsumedPairs(r) == { j \in PairsAfter(r) : r.at + 4 + 2 * j <= r.end }

\* C12: a decoded 0xC2/0xC3 record that consumed a pair whose second word
\* is 0x00000000 and whose first word is not 0x60000000 ends right after
\* that pair, renders no later word as its instruction, and the words that
\* follow are dispatched by their own tag.
C12_ClosedAtZeroWord ==
    \A i \in 1..Len(records) :
        LET r == records[i]
        IN  IsC2(r.at) =>
              \A j \in ConsumedPairs(r) :
                  DocumentedEnd(PairL(r, j), PairR(r, j)) =>
                      /\ r.end = r.at + 4 + 2 * j
                      /\ Len(Instructions(r)) <= 2 * (j + 1)
                      /\ r.end < Len(gecko_code) =>
                            /\ Len(tag_positions) > i
                            /\ tag_positions[i + 1] = r.end

IsC0(p) == TagAt(p) = \hC0

\* the line-count field of a 0xC0 record, the second word of its header
LineCount(r) == Word(r.at + 1)

\* the pairs of a 0xC0 record that its line count covers and that hold
\* 0x4E800020 in either word
BlrPairs(r) ==
    { j \in PairsAfter(r) :
        /\ LineCount(r)[1] > 0 \/ j < LineCount(r)[2]
        /\ PairL(r, j) = <<\h4E80, \h0020>> \/ PairR(r, j) = <<\h4E80, \h0020>> }

\* C13: a decoded 0xC0 record consumes its 2 header words and then k
\* pairs, k <= line_count: it ends right after the first pair holding
\* 0x4E800020, renders the words before the terminator as instructions and
\* the terminator as "blr", renders nothing after it, and the next tag is
\* read right after that pair; with no such pair among its line_count
\* pairs it consumes and renders exactly line_count pairs.
C13_C0StopsAtBlr ==
    \A i \in 1..Len(records) :
        LET r == records[i]
            body == r.at + 2
        IN  IsC0(r.at) =>
              /\ (r.end - body) % 2 = 0
              /\ LineCount(r)[1] > 0 \/ (r.end - body) \div 2 <= LineCount(r)[2]
              /\ IF BlrPairs(r) # {}
                 THEN LET k == Least(BlrPairs(r))
                          stop == body + 2 * k
                      IN  /\ r.end = stop + 2
                          /\ Instructions(r) =
                               IF PairL(r, k) = <<\h4E80, \h0020>>
                               THEN Append(Rendered(body, stop), Lit("blr"))
                               ELSE Append(Rendered(body, stop + 1), Lit("blr"))
                          /\ i < Len(tag_positions) => tag_positions[i + 1] = stop + 2
                 ELSE /\ LineCount(r)[1] = 0
                      /\ r.end = body + 2 * LineCount(r)[2]
                      /\ Instructions(r) = Rendered(body, r.end)
                      /\ i < Len(tag_positions) => tag_positions[i + 1] = r.end

\* a 0xC0 record of two lines that stops at its first pair, on a
\* terminator in the second word, and is followed by another record
C13_Witness ==
    /\ Len(records) >= 2
    /\ IsC0(records[1].at)
    /\ LineCount(records[1]) = <<0, 2>>
    /\ BlrPairs(records[1]) # {}
    /\ Least(BlrPairs(records[1])) = 0
    /\ PairL(records[1], 0) = <<\h3860, \h0001>>
    /\ PairR(records[1], 0) = <<\h4E80, \h0020>>
    /\ records[1].end = 4
    /\ records[2].at = 4

\* the cursor of a decode call in every state: where each tag was read,
\* how far each decoder that returned has advanced, and how many
\* iterations there have been
CursorProgress ==
    /\ cursor <= Len(gecko_code)
    /\ pc = "loop" => current_cursor_position = cursor
    /\ Len(records) <= Len(tag_positions)
    /\ Len(tag_positions) <= Len(records) + 1
    /\ Len(tag_positions) > 0 => tag_positions[1] = 0
    /\ \A i \in 1..Len(records) :
          /\ records[i].at = tag_positions[i]
          /\ records[i].first = Word(tag_positions[i])
          /\ records[i].end >= records[i].at + 2
          /\ records[i].end <= cursor
          /\ i < Len(tag_positions) => tag_positions[i + 1] = records[i].end
    /\ \A i \in 1..Len(tag_positions) :
          /\ tag_positions[i] < Len(gecko_code)
          /\ tag_positions[i] <= cursor
    /\ 2 * Len(tag_positions) <= Len(gecko_code)
    /\ pc = "done" => ret.kind \in {"Empty", "Malformed", "Ok", "InvalidType", "ParseError",
                                     "PanicIndex", "PanicUnreachable"}

\* a bound on the steps a decode call has left: the words after the place
\* of the next tag, and the statements around the loop
StepsLeft ==
    (Len(gecko_code) - current_cursor_position)
        + (CASE pc = "start" -> 2 [] pc = "loop" -> 1 [] OTHER -> 0)

\* C14: the tag of every dispatcher iteration is read where the cursor
\* stands (the first iteration at 0, each later one where the previous
\* decoder left the cursor) and reading it does not move the cursor, every
\* decoder that returns has advanced the cursor by at least two words, the
\* cursor never moves back and never passes the end of the sequence, there
\* are at most length/2 iterations, and every step of a call lowers a
\* natural number, so that every call ends, with Ok, an error or an abort.
C14_CursorProgress ==
    [][ /\ CursorProgress'
        /\ cursor' >= cursor
        /\ StepsLeft' >= 0
        /\ StepsLeft' < StepsLeft ]_vars

\* a call that ended with Ok after exactly length/2 iterations, the first
\* of them on a 0x80 record
C14_Witness ==
    /\ Done
    /\ ret.kind = "Ok"
    /\ Len(gecko_code) = 4
    /\ Len(tag_positions) = 2
    /\ TagAt(tag_positions[1]) = \h80
    /\ cursor = 4

(***************************************************************************)
(* instr_to_code (src/src/main.rs)                                         *)
(***************************************************************************)
\* longest operand list of a sampled line
MaxTokens == 3

\* the string a sequence of characters spells
RECURSIVE Str(_)
Str(cs) == IF cs = <<>> THEN "" ELSE cs[1] \o Str(Tail(cs))

EXPECTED_ARG_COUNTS ==
    <<
       <<"add", 3>>, <<"addc", 3>>, <<"adde", 3>>, <<"addi", 3>>,
       <<"addic", 3>>, <<"addic_", 3>>, <<"addis", 3>>, <<"addme", 2>>,
       <<"addze", 2>>, <<"and", 3>>, <<"andc", 3>>, <<"andi_", 3>>,
       <<"andis_", 3>>, <<"b", 1>>, <<"bc", 3>>, <<"bcctr", 2>>,
       <<"bclr", 2>>, <<"cmp", 4>>, <<"cmpi", 4>>, <<"cmpl", 4>>,
       <<"cmpli", 4>>, <<"cntlzw", 2>>, <<"crand", 3>>, <<"crandc", 3>>,
       <<"creqv", 3>>, <<"crnand", 3>>, <<"crnor", 3>>, <<"cror", 3>>,
       <<"crorc", 3>>, <<"crxor", 3>>, <<"dcbf", 2>>, <<"dcbi", 2>>,
       <<"dcbst", 2>>, <<"dcbt", 2>>, <<"dcbtst", 2>>, <<"dcbz", 2>>,
       <<"dcbz_l", 2>>, <<"divw", 3>>, <<"divwu", 3>>, <<"eciwx", 3>>,
       <<"ecowx", 3>>, <<"eieio", 0>>, <<"eqv", 3>>, <<"extsb", 2>>,
       <<"extsh", 2>>, <<"fabs", 2>>, <<"fadd", 3>>, <<"fadds", 3>>,
       <<"fcmpo", 3>>, <<"fcmpu", 3>>, <<"fctiw", 2>>, <<"fctiwz", 2>>,
       <<"fdiv", 3>>, <<"fdivs", 3>>, <<"fmadd", 4>>, <<"fmadds", 4>>,
       <<"fmr", 2>>, <<"fmsub", 4>>, <<"fmsubs", 4>>, <<"fmul", 3>>,
       <<"fmuls", 3>>, <<"fnabs", 2>>, <<"fneg", 2>>, <<"fnmadd", 4>>,
       <<"fnmadds", 4>>, <<"fnmsub", 4>>, <<"fnmsubs", 4>>, <<"fres", 2>>,
       <<"frsp", 2>>, <<"frsqrte", 2>>, <<"fsel", 4>>, <<"fsub", 3>>,
       <<"fsubs", 3>>, <<"icbi", 2>>, <<"isync", 0>>, <<"lbz", 3>>,
       <<"lbzu", 3>>, <<"lbzux", 3>>, <<"lbzx", 3>>, <<"lfd", 3>>,
       <<"lfdu", 3>>, <<"lfdux", 3>>, <<"lfdx", 3>>, <<"lfs", 3>>,
       <<"lfsu", 3>>, <<"lfsux", 3>>, <<"lfsx", 3>>, <<"lha", 3>>,
       <<"lhau", 3>>, <<"lhaux", 3>>, <<"lhax", 3>>, <<"lhbrx", 3>>,
       <<"lhz", 3>>, <<"lhzu", 3>>, <<"lhzux", 3>>, <<"lhzx", 3>>,
       <<"lmw", 3>>, <<"lswi", 3>>, <<"lswx", 3>>, <<"lwarx", 3>>,
       <<"lwbrx", 3>>, <<"lwz", 3>>, <<"lwzu", 3>>, <<"lwzux", 3>>,
       <<"lwzx", 3>>, <<"mcrf", 2>>, <<"mcrfs", 2>>, <<"mcrxr", 1>>,
       <<"mfcr", 1>>, <<"mffs", 1>>, <<"mfmsr", 1>>, <<"mfspr", 2>>,
       <<"mfsr", 2>>, <<"mfsrin", 2>>, <<"mftb", 2>>, <<"mtcrf", 2>>,
       <<"mtfsb0", 1>>, <<"mtfsb1", 1>>, <<"mtfsf", 2>>, <<"mtfsfi", 2>>,
       <<"mtmsr", 1>>, <<"mtspr", 2>>, <<"mtsr", 2>>, <<"mtsrin", 2>>,
       <<"mulhw", 3>>, <<"mulhwu", 3>>, <<"mulli", 3>>, <<"mullw", 3>>,
       <<"nand", 3>>, <<"neg", 2>>, <<"nor", 3>>, <<"or", 3>>,
       <<"orc", 3>>, <<"ori", 3>>, <<"oris", 3>>, <<"psq_l", 5>>,
       <<"psq_lu", 5>>, <<"psq_lux", 5>>, <<"psq_lx", 5>>, <<"psq_st", 5>>,
       <<"psq_stu", 5>>, <<"psq_stux", 5>>, <<"psq_stx", 5>>, <<"ps_abs", 2>>,
       <<"ps_add", 3>>, <<"ps_cmpo0", 3>>, <<"ps_cmpo1", 3>>, <<"ps_cmpu0", 3>>,
       <<"ps_cmpu1", 3>>, <<"ps_div", 3>>, <<"ps_madd", 4>>, <<"ps_madds0", 4>>,
       <<"ps_madds1", 4>>, <<"ps_merge00", 3>>, <<"ps_merge01", 3>>, <<"ps_merge10", 3>>,
       <<"ps_merge11", 3>>, <<"ps_mr", 2>>, <<"ps_msub", 4>>, <<"ps_mul", 3>>,
       <<"ps_muls0", 3>>, <<"ps_muls1", 3>>, <<"ps_nabs", 2>>, <<"ps_neg", 2>>,
       <<"ps_nmadd", 4>>, <<"ps_nmsub", 4>>, <<"ps_res", 2>>, <<"ps_rsqrte", 2>>,
       <<"ps_sel", 4>>, <<"ps_sub", 3>>, <<"ps_sum0", 4>>, <<"ps_sum1", 4>>,
       <<"rfi", 0>>, <<"rlwimi", 5>>, <<"rlwinm", 5>>, <<"rlwnm", 5>>,
       <<"sc", 0>>, <<"slw", 3>>, <<"sraw", 3>>, <<"srawi", 3>>,
       <<"srw", 3>>, <<"stb", 3>>, <<"stbu", 3>>, <<"stbux", 3>>,
       <<"stbx", 3>>, <<"stfd", 3>>, <<"stfdu", 3>>, <<"stfdux", 3>>,
       <<"stfdx", 3>>, <<"stfiwx", 3>>, <<"stfs", 3>>, <<"stfsu", 3>>,
       <<"stfsux", 3>>, <<"stfsx", 3>>, <<"sth", 3>>, <<"sthbrx", 3>>,
       <<"sthu", 3>>, <<"sthux", 3>>, <<"sthx", 3>>, <<"stmw", 3>>,
       <<"stswi", 3>>, <<"stswx", 3>>, <<"stw", 3>>, <<"stwbrx", 3>>,
       <<"stwcx_", 3>>, <<"stwu", 3>>, <<"stwux", 3>>, <<"stwx", 3>>,
       <<"subf", 3>>, <<"subfc", 3>>, <<"subfe", 3>>, <<"subfic", 3>>,
       <<"subfme", 2>>, <<"subfze", 2>>, <<"sync", 0>>, <<"tlbie", 1>>,
       <<"tlbsync", 0>>, <<"tw", 3>>, <<"twi", 3>>, <<"xor", 3>>,
       <<"xori", 3>>, <<"xoris", 3>>, <<"bctr", 0>>, <<"bdnz", 1>>,
       <<"bdnzf", 2>>, <<"bdnzflr", 1>>, <<"bdnzlr", 0>>, <<"bdnzt", 2>>,
       <<"bdnztlr", 1>>, <<"bdz", 1>>, <<"bdzf", 2>>, <<"bdzflr", 1>>,
       <<"bdzlr", 0>>, <<"bdzt", 2>>, <<"bdztlr", 1>>, <<"beq", 0>>,
       <<"blt", 4>>, <<"clrlwi", 3>>, <<"clrrwi", 3>>, <<"cmpd", 1>>,
       <<"crmove", 2>>, <<"crnot", 2>>, <<"crset", 1>>, <<"extlwi", 4>>,
       <<"extrwi", 4>>, <<"li", 2>>, <<"lis", 2>>, <<"mfctr", 1>>,
       <<"mfdar", 1>>, <<"mfdbatl", 2>>, <<"mfdbatu", 2>>, <<"mfdec", 1>>,
       <<"mfdsisr", 1>>, <<"mfear", 1>>, <<"mfibatl", 2>>, <<"mfibatu", 2>>,
       <<"mflr", 1>>, <<"mfsdr1", 1>>, <<"mfsprg", 2>>, <<"mfsrr0", 1>>,
       <<"mfsrr1", 1>>, <<"mfxer", 1>>, <<"mr", 2>>, <<"mtctr", 1>>,
       <<"mtdar", 1>>, <<"mtdbatl", 2>>, <<"mtdbatu", 2>>, <<"mtdec", 1>>,
       <<"mtdsisr", 1>>, <<"mtear", 1>>, <<"mtibatl", 2>>, <<"mtibatu", 2>>,
       <<"mtlr", 1>>, <<"mtsdr1", 1>>, <<"mtsprg", 2>>, <<"mtsrr0", 1>>,
       <<"mtsrr1", 1>>, <<"mttbl", 1>>, <<"mttbu", 1>>, <<"mtxer", 1>>,
       <<"nop", 0>>, <<"rotlw", 3>>, <<"rotlwi", 3>>, <<"rotrwi", 3>>,
       <<"slwi", 3>>, <<"srwi", 3>>, <<"subi", 3>>, <<"subic", 3>>,
       <<"subic_", 3>>, <<"subis", 3>>, <<"trap", 0>>, <<"tweq", 2>>,
       <<"twgti", 2>>, <<"twlge", 2>>, <<"twllei", 2>>, <<"twui", 2>>
    >>

\* find_arg_count: the count of the first entry for the mnemonic, -1 for None
find_arg_count(m) ==
    LET name == Str(m)
        hits == {i \in 1..Len(EXPECTED_ARG_COUNTS) : EXPECTED_ARG_COUNTS[i][1] = name}
    IN  IF hits = {} THEN -1
        ELSE EXPECTED_ARG_COUNTS[CHOOSE i \in hits : \A j \in hits : i <= j][2]

\* str::contains, ends_with, find (0-based, -1 for None), strip_prefix
Contains(token, c) == \E i \in 1..Len(token) : token[i] = c

EndsWith(token, c) == Len(token) > 0 /\ token[Len(token)] = c

StartsWith(token, prefix) ==
    /\ Len(token) >= Len(prefix)
    /\ SubSeq(token, 1, Len(prefix)) = prefix

Find(token, c) ==
    IF Contains(token, c)
    THEN (CHOOSE i \in 1..Len(token) :
              token[i] = c /\ \A j \in 1..(i - 1) : token[j] # c) - 1
    ELSE -1

Drop(token, n) == SubSeq(token, n + 1, Len(token))

\* char::to_digit(radix), -1 for None
DigitChars == <<"0", "1", "2", "3", "4", "5", "6", "7", "8", "9",
                "a", "b", "c", "d", "e", "f">>

UpperChars == <<"0", "1", "2", "3", "4", "5", "6", "7", "8", "9",
                "A", "B", "C", "D", "E", "F">>

ToDigit(c, radix) ==
    IF \E i \in 1..radix : DigitChars[i] = c \/ UpperChars[i] = c
    THEN (CHOOSE i \in 1..radix : DigitChars[i] = c \/ UpperChars[i] = c) - 1
    ELSE -1

\* the digit loop of i16::from_str_radix: overflow checked at every digit
RECURSIVE Accumulate(_, _, _, _, _)
Accumulate(digits, i, acc, radix, positive) ==
    IF i > Len(digits) THEN [ok |-> TRUE, value |-> acc]
    ELSE LET d == ToDigit(digits[i], radix)
             next == IF positive THEN acc * radix + d ELSE acc * radix - d
         IN  IF d = -1 THEN [ok |-> FALSE, value |-> 0]
             ELSE IF next > 32767 \/ next < -32768 THEN [ok |-> FALSE, value |-> 0]
             ELSE Accumulate(digits, i + 1, next, radix, positive)

\* i16::from_str_radix(src, radix) and str::parse::<i16> (radix 10)
FromStrRadix(src, radix) ==
    IF src = <<>> THEN [ok |-> FALSE, value |-> 0]
    ELSE IF src[1] \in {"+", "-"} /\ Len(src) = 1 THEN [ok |-> FALSE, value |-> 0]
    ELSE IF src[1] = "+" THEN Accumulate(Tail(src), 1, 0, radix, TRUE)
    ELSE IF src[1] = "-" THEN Accumulate(Tail(src), 1, 0, radix, FALSE)
    ELSE Accumulate(src, 1, 0, radix, TRUE)

Some(v) == [st |-> "some", value |-> v]

None == [st |-> "none", value |-> 0]

Panic == [st |-> "panic", value |-> 0]

\* num * mult on i16: overflows for -32768 * -1 (a panic with overflow
\* checks, else the wrapped product)
MulI16(num, mult, checks) ==
    LET prod == num * mult
    IN  IF prod > 32767 \/ prod < -32768
        THEN IF checks THEN Panic ELSE Some(((prod + 32768) % 65536) - 32768)
        ELSE Some(prod)

token_to_numeric_argument(token0, checks) ==
    LET negative == StartsWith(token0, <<"-">>)
        token == IF negative THEN Drop(token0, 1) ELSE token0
        mult == IF negative THEN -1 ELSE 1
        reg == FromStrRadix(Drop(token0, 1), 10)
        hex == FromStrRadix(Drop(token, 2), 16)
        dec == FromStrRadix(token, 10)
    IN  IF StartsWith(token0, <<"r">>) \/ StartsWith(token0, <<"f">>)
        THEN IF reg.ok THEN Some(reg.value) ELSE None
        ELSE IF StartsWith(token, <<"0", "x">>)
        THEN IF hex.ok THEN MulI16(hex.value, mult, checks) ELSE Panic
        ELSE IF dec.ok THEN MulI16(dec.value, mult, checks)
        ELSE None

\* u16::from_ne_bytes(arg_value.to_ne_bytes()) as u32
AsUnsigned(v) == (v + 65536) % 65536

token_to_argument(token0, checks) ==
    LET open == Contains(token0, "(")
        token1 == IF open THEN Drop(token0, 1) ELSE token0
        close == Contains(token1, ")")
        token2 == IF close THEN SubSeq(token1, 1, Len(token1) - 1) ELSE token1
        v == token_to_numeric_argument(token2, checks)
    IN  IF open /\ ~StartsWith(token0, <<"(">>) THEN None
        ELSE IF close /\ ~EndsWith(token1, ")") THEN None
        ELSE IF v.st = "some" THEN Some(AsUnsigned(v.value))
        ELSE v

\* is_offset: Some(true) or Some(false); its None branch is unreachable
is_offset(token) == Contains(token, "(") /\ EndsWith(token, ")")

\* offset_to_tokens: the text before the first '(' and the text from it on
offset_to_tokens(token) ==
    LET left_paren_pos == Find(token, "(")
    IN  [found |-> left_paren_pos # -1,
         offset |-> SubSeq(token, 1, left_paren_pos),
         register |-> Drop(token, left_paren_pos)]

\* token_to_arguments: st is "some", "none" or "panic"
token_to_arguments(token, checks) ==
    LET parts == offset_to_tokens(token)
        offset_arg == token_to_argument(parts.offset, checks)
        register_arg == token_to_argument(parts.register, checks)
    IN  IF ~parts.found THEN [st |-> "none", a |-> 0, b |-> 0]
        ELSE IF offset_arg.st # "some" THEN [st |-> offset_arg.st, a |-> 0, b |-> 0]
        ELSE IF register_arg.st # "some" THEN [st |-> register_arg.st, a |-> 0, b |-> 0]
        ELSE [st |-> "some", a |-> offset_arg.value, b |-> register_arg.value]

\* line.split([' ', ',']): the pieces between separators, empty ones included
RECURSIVE SplitFrom(_, _, _, _)
SplitFrom(text, i, piece, pieces) ==
    IF i > Len(text) THEN Append(pieces, piece)
    ELSE IF text[i] \in {" ", ","}
    THEN SplitFrom(text, i + 1, <<>>, Append(pieces, piece))
    ELSE SplitFrom(text, i + 1, Append(piece, text[i]), pieces)

NotEmpty(t) == t # <<>>

\* the tokens of a line: split, then retain the non-empty pieces
Tokenize(text) == SelectSeq(SplitFrom(text, 1, <<>>, <<>>), NotEmpty)

\* a faulty variant of found_arg_count that counts the tokens only
found_arg_count_TokensOnly(operands) == Len(operands)

\* found_arg_count: the tokens plus one for each token in offset form
found_arg_count(operands) ==
    Len(operands) + Cardinality({i \in 1..Len(operands) : is_offset(operands[i])})

(***************************************************************************)
(* ppc750cl_asm::assemble (an external crate): modelled for the mnemonics  *)
(* of the sampled lines by their PowerPC encodings.  An operand slot holds *)
(* a natural (Argument::Unsigned) or -1 (Argument::None).                  *)
(***************************************************************************)
RECURSIVE LeadingArgs(_, _)
LeadingArgs(args, i) ==
    IF i > 4 \/ args[i] = -1 THEN i ELSE LeadingArgs(args, i + 1)

assemble(m, args) ==
    LET name == Str(m)
        n == LeadingArgs(args, 0)
        reg(i) == args[i] <= 31
        word(hi, lo) == [kind |-> "Some", value |-> <<hi, lo>>]
    IN  CASE name = "lwz" /\ n = 3 /\ reg(0) /\ reg(2) ->
                 word(32 * 1024 + args[0] * 32 + args[2], args[1])
          [] name = "add" /\ n = 3 /\ reg(0) /\ reg(1) /\ reg(2) ->
                 word(31 * 1024 + args[0] * 32 + args[1], args[2] * 2048 + 532)
          [] name = "li" /\ n = 2 /\ reg(0) ->
                 word(14 * 1024 + args[0] * 32, args[1])
          [] name = "rlwinm" /\ n = 5 /\ \A i \in 0..4 : args[i] <= 31 ->
                 word(21 * 1024 + args[1] * 32 + args[0],
                      args[2] * 2048 + args[3] * 64 + args[4] * 2)
          [] name = "nop" /\ n = 0 -> word(\h6000, 0)
          [] OTHER -> [kind |-> "None", value |-> Zero32]

ARet(kind) == [kind |-> kind, value |-> Zero32]

\* lines 106-145: tokenize, take the mnemonic, check the operand count
AsmStart ==
    /\ apc = "start"
    /\ LET all == Tokenize(line)
           m == Head(all)
           operands == Tail(all)
           arg_count == find_arg_count(m)
       IN  IF all = <<>>
           THEN /\ aret' = ARet("None")
                /\ apc' = "done"
                /\ UNCHANGED <<mnemonic, tokens, assembled>>
           ELSE IF operands = <<>>
           THEN /\ aret' = assemble(m, NoArgs)
                /\ assembled' = Append(assembled, NoArgs)
                /\ apc' = "done"
                /\ mnemonic' = m
                /\ tokens' = operands
           ELSE IF arg_count = -1 \/ found_arg_count(operands) # arg_count
           THEN /\ aret' = ARet("None")
                /\ apc' = "done"
                /\ mnemonic' = m
                /\ tokens' = operands
                /\ UNCHANGED assembled
           ELSE /\ apc' = "args"
                /\ mnemonic' = m
                /\ tokens' = operands
                /\ UNCHANGED <<aret, assembled>>
    /\ passed_args' = NoArgs
    /\ used_args' = 0
    /\ UNCHANGED <<line, slot_writes, gvars>>

\* lines 155-165: one loop iteration on a token in offset form; whether an
\* integer overflow panics or wraps depends on the build (overflow_checks)
AsmOffsetToken ==
    /\ apc = "args"
    /\ tokens # <<>>
    /\ is_offset(Head(tokens))
    /\ \E overflow_checks \in BOOLEAN :
       LET args == token_to_arguments(Head(tokens), overflow_checks)
       IN  IF args.st # "some"
           THEN /\ aret' = ARet(IF args.st = "panic" THEN "Panic" ELSE "None")
                /\ apc' = "done"
                /\ UNCHANGED <<passed_args, used_args, slot_writes>>
           ELSE IF used_args + 1 > 4
           THEN /\ aret' = ARet("Panic")
                /\ apc' = "done"
                /\ passed_args' = IF used_args > 4 THEN passed_args
                                  ELSE [passed_args EXCEPT ![used_args] = args.a]
                /\ slot_writes' = slot_writes \o <<used_args, used_args + 1>>
                /\ UNCHANGED used_args
           ELSE /\ passed_args' = [passed_args EXCEPT ![used_args] = args.a,
                                                      ![used_args + 1] = args.b]
                /\ slot_writes' = slot_writes \o <<used_args, used_args + 1>>
                /\ used_args' = used_args + 2
                /\ UNCHANGED <<aret, apc>>
    /\ tokens' = Tail(tokens)
    /\ UNCHANGED <<line, mnemonic, assembled, gvars>>

\* lines 168-177: one loop iteration on any other token
AsmPlainToken ==
    /\ apc = "args"
    /\ tokens # <<>>
    /\ ~is_offset(Head(tokens))
    /\ \E overflow_checks \in BOOLEAN :
       LET arg == token_to_argument(Head(tokens), overflow_checks)
       IN  IF arg.st # "some"
           THEN /\ aret' = ARet(IF arg.st = "panic" THEN "Panic" ELSE "None")
                /\ apc' = "done"
                /\ UNCHANGED <<passed_args, used_args, slot_writes>>
           ELSE IF used_args > 4
           THEN /\ aret' = ARet("Panic")
                /\ apc' = "done"
                /\ slot_writes' = Append(slot_writes, used_args)
                /\ UNCHANGED <<passed_args, used_args>>
           ELSE /\ passed_args' = [passed_args EXCEPT ![used_args] = arg.value]
                /\ slot_writes' = Append(slot_writes, used_args)
                /\ used_args' = used_args + 1
                /\ IF used_args + 1 > 5
                   THEN aret' = ARet("None") /\ apc' = "done"
                   ELSE UNCHANGED <<aret, apc>>
    /\ tokens' = Tail(tokens)
    /\ UNCHANGED <<line, mnemonic, assembled, gvars>>

\* lines 180-184: the operands go to the encoder
AsmEncode ==
    /\ apc = "args"
    /\ tokens = <<>>
    /\ aret' = assemble(mnemonic, passed_args)
    /\ assembled' = Append(assembled, passed_args)
    /\ apc' = "done"
    /\ UNCHANGED <<line, mnemonic, tokens, passed_args,
                   used_args, slot_writes, gvars>>

(***************************************************************************)
(* Inputs of instr_to_code                                                 *)
(***************************************************************************)
Mnemonics ==
    { <<"l", "w", "z">>, <<"a", "d", "d">>, <<"l", "i">>,
      <<"r", "l", "w", "i", "n", "m">>, <<"n", "o", "p">>, <<"f", "o", "o">> }

OperandTokens ==
    { <<"r", "3">>, <<"f", "1">>, <<"0", "x", "4", "(", "r", "3", ")">>,
      <<"0", "x", "4">>, <<"-", "1">>, <<"0", "x", "Z", "Z">>,
      <<"0", "x", "8", "0", "0", "0">>, <<"x">>, <<"4", "(", "r", "3">>,
      <<"-", "-", "3", "2", "7", "6", "8">> }

\* the operands of a line, the first after " ", the others after ", "
RECURSIVE JoinOperands(_, _)
JoinOperands(ops, i) ==
    IF i > Len(ops) THEN <<>>
    ELSE (IF i = 1 THEN <<" ">> ELSE <<",", " ">>) \o ops[i] \o JoinOperands(ops, i + 1)

Lines ==
    { m \o JoinOperands(ops, 1) : m \in Mnemonics, ops \in SeqsUpTo(OperandTokens, MaxTokens) }
    \cup { <<>>, <<" ", ",">> }

GeckoIdle ==
    /\ gecko_code = <<>>
    /\ pc = "idle"
    /\ cursor = 0
    /\ current_cursor_position = 0
    /\ result = <<>>
    /\ ret = NoRet
    /\ tag_positions = <<>>
    /\ records = <<>>

InitAsm ==
    /\ line \in Lines
    /\ apc = "start"
    /\ mnemonic = <<>>
    /\ tokens = <<>>
    /\ passed_args = NoArgs
    /\ used_args = 0
    /\ slot_writes = <<>>
    /\ assembled = <<>>
    /\ aret = NoARet
    /\ GeckoIdle

NextAsm ==
    \/ AsmStart
    \/ AsmOffsetToken
    \/ AsmPlainToken
    \/ AsmEncode

SpecAsm == InitAsm /\ [][NextAsm]_vars

(***************************************************************************)
(* Properties of instr_to_code                                             *)
(***************************************************************************)
\* C8: instr_to_code never crashes; an unknown mnemonic, a count mismatch
\* or an unparseable operand token gives the ordinary outcome None.
C8_NeverPanics == aret.kind # "Panic"

\* the operand tokens of the line
OperandsOf(text) == Tail(Tokenize(text))

OffsetForm(t) == (\E i \in 1..Len(t) : t[i] = "(") /\ t[Len(t)] = ")"

\* the table's arity of the line's mnemonic
ArityOf(text) ==
    LET name == Str(Head(Tokenize(text)))
    IN  IF \E n \in 0..5 : \E i \in 1..Len(EXPECTED_ARG_COUNTS) :
               EXPECTED_ARG_COUNTS[i] = <<name, n>>
        THEN CHOOSE n \in 0..5 : \E i \in 1..Len(EXPECTED_ARG_COUNTS) :
                 EXPECTED_ARG_COUNTS[i] = <<name, n>>
        ELSE -1

LwzLine ==
    <<"l", "w", "z", " ", "r", "3", ",", " ", "0", "x", "4", "(", "r", "3", ")">>

\* C9: with at least one operand token the operands reach the encoder only
\* when tokens + offset-form tokens equals the table arity; an offset token
\* fills two consecutive slots and any other token one, in token order, so
\* the filled slots number the arity and no slot above 4 is written;
\* "lwz r3, 0x4(r3)" gives operands (3, 4, 3) and 0x80630004.
C9_ArityAndSlots ==
    LET ops == OperandsOf(line)
        offsets == {i \in 1..Len(ops) : OffsetForm(ops[i])}
        parsed == Len(ops) - Len(tokens)
        parsedOffsets == {i \in offsets : i <= parsed}
    IN  /\ \A i \in 1..Len(slot_writes) : slot_writes[i] = i - 1 /\ slot_writes[i] <= 4
        /\ (apc = "args") =>
               /\ Len(ops) + Cardinality(offsets) = ArityOf(line)
               /\ used_args = parsed + Cardinality(parsedOffsets)
               /\ Len(slot_writes) = used_args
               /\ \A i \in 0..4 : (passed_args[i] # -1) <=> (i < used_args)
        /\ (assembled # <<>> /\ Tokenize(line) # <<>> /\ Len(ops) >= 1) =>
               /\ Len(ops) + Cardinality(offsets) = ArityOf(line)
               /\ \A i \in 0..4 : (assembled[1][i] # -1) <=> (i < ArityOf(line))
        /\ (apc = "done" /\ line = LwzLine) =>
               /\ assembled = << [i \in 0..4 |-> IF i = 1 THEN 4 ELSE IF i \in {0, 2} THEN 3 ELSE -1] >>
               /\ aret = [kind |-> "Some", value |-> <<\h8063, \h0004>>]

C9_Witness ==
    /\ apc = "done"
    /\ Str(mnemonic) = "rlwinm"
    /\ assembled # <<>>
    /\ used_args = 5
    /\ \E i \in 1..Len(OperandsOf(line)) : OffsetForm(OperandsOf(line)[i])

====
